---- MODULE Spec2Model ----
(***************************************************************************)
(* A model of the extrac-table scripts:                                    *)
(*   - parse_json2_tables (scan_pdf.py and its earlier copy), the         *)
(*     normaliser of the remote API's JSON2 page tree;                     *)
(*   - main of the single-file remote-API scripts (the request pipeline);  *)
(*   - process_pdf / extract_tables_* / main of the batch driver main.py.  *)
(*                                                                         *)
(* JSON values are tagged records:                                         *)
(*   [t |-> "str",  s |-> <<chars>>]   a Python str, one character a cell  *)
(*   [t |-> "int",  n |-> i]           a Python int                        *)
(*   [t |-> "null"]                    None                                *)
(*   [t |-> "list", l |-> <<values>>]  a Python list                       *)
(*   [t |-> "dict", d |-> [Keys -> value or Absent]]  a Python dict        *)
(***************************************************************************)
EXTENDS Integers, Sequences, FiniteSets, TLC

VARIABLES
    phase,      \* which program the behaviour is a run of, and how far it got
    body,       \* parse: the argument of parse_json2_tables
    impl,       \* parse / pipeline: "scan_pdf" (scan_pdf.py) or "legacy" (the earlier copy)
    result,     \* parse: what the call produced: [exc, val]
    pipe,       \* pipeline: the record of main()'s run
    doc,        \* driver: the record of one process_pdf call
    batch       \* batch: the record of main.py main()'s fan-out

vars == <<phase, body, impl, result, pipe, doc, batch>>

-----------------------------------------------------------------------------
(* Bounds of the model.                                                    *)

MaxStrLen == 3      \* longest cell text enumerated character by character
MaxPages == 3       \* longest document.page list
MaxRows == 2        \* most row entries on the one page of a deep tree
MaxCols == 2        \* most cells in one row of a deep tree
MaxPageCount == 2   \* most pages of a PDF handed to the batch driver
MaxPageNo == 3      \* largest page number requested with --pages
MaxLines == 2       \* most lines the OCR engine finds on a page
MaxParallel == 2    \* largest --parallel

-----------------------------------------------------------------------------
(* JSON values.                                                            *)

Keys == {"document", "page", "index", "row", "column", "text"}

Absent == [t |-> "absent"]
Null == [t |-> "null"]
Str(s) == [t |-> "str", s |-> s]
Int_(n) == [t |-> "int", n |-> n]
List(l) == [t |-> "list", l |-> l]
Dict(r) == [t |-> "dict", d |-> [k \in Keys |-> IF k \in DOMAIN r THEN r[k] ELSE Absent]]
EmptyDict == [t |-> "dict", d |-> [k \in Keys |-> Absent]]

\* dict.get(k, default)
Get(v, k, default) == IF v.d[k] = Absent THEN default ELSE v.d[k]

\* isinstance(v, dict) / isinstance(v, list)
IsDict(v) == v.t = "dict"
IsList(v) == v.t = "list"

\* The order in which a dict of the model lists its keys.
KeyOrder == <<"document", "page", "index", "row", "column", "text">>

-----------------------------------------------------------------------------
(* Python's str primitives, character by character.                        *)

Space == " "

RECURSIVE LStrip(_)
LStrip(s) == IF s # <<>> /\ Head(s) = Space THEN LStrip(Tail(s)) ELSE s

RECURSIVE RStrip(_)
RStrip(s) ==
    IF s # <<>> /\ s[Len(s)] = Space THEN RStrip(SubSeq(s, 1, Len(s) - 1)) ELSE s

\* str.strip()
Strip(s) == RStrip(LStrip(s))

DigitChars == <<"0", "1", "2", "3", "4", "5", "6", "7", "8", "9">>

\* str(n) of a non-negative int
RECURSIVE Digits(_)
Digits(n) ==
    IF n < 10 THEN <<DigitChars[n + 1]>>
    ELSE Digits(n \div 10) \o <<DigitChars[(n % 10) + 1]>>

IsDigit(c) == \E i \in 1..10 : DigitChars[i] = c
DigitVal(c) == (CHOOSE i \in 1..10 : DigitChars[i] = c) - 1

RECURSIVE DigitsVal(_)
DigitsVal(s) ==
    IF s = <<>> THEN 0
    ELSE 10 * DigitsVal(SubSeq(s, 1, Len(s) - 1)) + DigitVal(s[Len(s)])

RECURSIVE Join(_, _)
Join(parts, sep) ==
    IF parts = <<>> THEN <<>>
    ELSE IF Len(parts) = 1 THEN parts[1]
    ELSE parts[1] \o sep \o Join(Tail(parts), sep)

\* The characters of a key of the model.
KeyChars(k) ==
    CASE k = "document" -> <<"d", "o", "c", "u", "m", "e", "n", "t">>
      [] k = "page" -> <<"p", "a", "g", "e">>
      [] k = "index" -> <<"i", "n", "d", "e", "x">>
      [] k = "row" -> <<"r", "o", "w">>
      [] k = "column" -> <<"c", "o", "l", "u", "m", "n">>
      [] k = "text" -> <<"t", "e", "x", "t">>

\* repr(v): strings of the model hold no quote or escape, so repr quotes with '
RECURSIVE PyRepr(_)
PyRepr(v) ==
    CASE v.t = "str" -> <<"'">> \o v.s \o <<"'">>
      [] v.t = "int" -> Digits(v.n)
      [] v.t = "null" -> <<"N", "o", "n", "e">>
      [] v.t = "list" ->
            <<"[">> \o Join([i \in 1..Len(v.l) |-> PyRepr(v.l[i])], <<",", " ">>) \o <<"]">>
      [] v.t = "dict" ->
            LET present == SelectSeq(KeyOrder, LAMBDA k : v.d[k] # Absent)
                item(k) == <<"'">> \o KeyChars(k) \o <<"'", ":", " ">> \o PyRepr(v.d[k])
            IN  <<"{">> \o Join([i \in 1..Len(present) |-> item(present[i])], <<",", " ">>)
                    \o <<"}">>

\* str(v)
PyStr(v) == IF v.t = "str" THEN v.s ELSE PyRepr(v)

\* int(v): [exc, n]
PyInt(v) ==
    CASE v.t = "int" -> [exc |-> "none", n |-> v.n]
      [] v.t = "str" ->
            LET s == Strip(v.s)
            IN  IF s # <<>> /\ \A i \in 1..Len(s) : IsDigit(s[i])
                THEN [exc |-> "none", n |-> DigitsVal(s)]
                ELSE [exc |-> "ValueError", n |-> 0]
      [] OTHER -> [exc |-> "TypeError", n |-> 0]

\* bool(v)
Truthy(v) ==
    CASE v.t = "list" -> v.l # <<>>
      [] v.t = "str" -> v.s # <<>>
      [] v.t = "int" -> v.n # 0
      [] v.t = "dict" -> \E k \in Keys : v.d[k] # Absent
      [] OTHER -> FALSE

\* for x in v: [exc, items]
Iter(v) ==
    CASE v.t = "list" -> [exc |-> "none", items |-> v.l]
      [] v.t = "str" -> [exc |-> "none", items |-> [i \in 1..Len(v.s) |-> Str(<<v.s[i]>>)]]
      [] v.t = "dict" ->
            LET present == SelectSeq(KeyOrder, LAMBDA k : v.d[k] # Absent)
            IN  [exc |-> "none", items |-> [i \in 1..Len(present) |-> Str(KeyChars(present[i]))]]
      [] OTHER -> [exc |-> "TypeError", items |-> <<>>]

Ok(val) == [exc |-> "none", val |-> val]
Raise(e) == [exc |-> e, val |-> <<>>]

-----------------------------------------------------------------------------
(* parse_json2_tables of scan_pdf.py.                                      *)

\* a variant that unwraps a second level, which the code does not
UnwrapDeep(cell) ==
    LET txt == Get(cell, "text", Str(<<>>))
        t1 == IF IsDict(txt) THEN Get(txt, "text", Str(<<>>)) ELSE txt
    IN  IF IsDict(t1) THEN Get(t1, "text", Str(<<>>)) ELSE t1
\* cell["text"], unwrapped when it is a mapping
Unwrap(cell) ==
    LET txt == Get(cell, "text", Str(<<>>))
    IN  IF IsDict(txt) THEN Get(txt, "text", Str(<<>>)) ELSE txt

\* the string appended to cols for one cell
NormCell(cell) == Strip(PyStr(Unwrap(cell)))

\* the inner loop over r.get("column", []): [exc, val = cols]
RowCols(r) ==
    LET it == Iter(Get(r, "column", List(<<>>)))
        cells == SelectSeq(it.items, IsDict)
    IN  IF it.exc # "none" THEN Raise(it.exc)
        ELSE Ok([i \in 1..Len(cells) |-> NormCell(cells[i])])

\* the loop over rows: [exc, val = mat]
RECURSIVE BuildMatrix(_, _)
BuildMatrix(rows, mat) ==
    IF rows = <<>> THEN Ok(mat)
    ELSE IF ~IsDict(Head(rows)) THEN BuildMatrix(Tail(rows), mat)
    ELSE LET c == RowCols(Head(rows))
         IN  IF c.exc # "none" THEN Raise(c.exc)
             ELSE BuildMatrix(Tail(rows), Append(mat, c.val))

\* a variant that keeps the 0-based index
PageNumberZeroBased(pg) == PyInt(Get(pg, "index", Int_(0)))
\* idx = int(pg.get("index", 0)) + 1: [exc, n]
PageNumber(pg) ==
    LET i == PyInt(Get(pg, "index", Int_(0)))
    IN  [exc |-> i.exc, n |-> IF i.exc = "none" THEN i.n + 1 ELSE 0]

\* the record appended for a non-empty matrix
MakeRecord(idx, mat) == [page |-> idx, headers |-> Head(mat), rows |-> Tail(mat)]

\* one iteration of the loop over pages: [exc, val = the records it appends]
ParsePage(pg) ==
    IF ~IsDict(pg) THEN Ok(<<>>)
    ELSE LET idx == PageNumber(pg)
             rows == Get(pg, "row", List(<<>>))
         IN  IF idx.exc # "none" THEN Raise(idx.exc)
             ELSE IF ~IsList(rows) THEN Ok(<<>>)
             ELSE IF rows.l = <<>> THEN Ok(<<>>)
             ELSE LET m == BuildMatrix(rows.l, <<>>)
                  IN  IF m.exc # "none" THEN Raise(m.exc)
                      ELSE IF m.val = <<>> THEN Ok(<<>>)
                      ELSE Ok(<<MakeRecord(idx.n, m.val)>>)

\* the loop over pages: [exc, val = results]
RECURSIVE ParsePages(_, _)
ParsePages(pages, results) ==
    IF pages = <<>> THEN Ok(results)
    ELSE LET p == ParsePage(Head(pages))
         IN  IF p.exc # "none" THEN Raise(p.exc)
             ELSE ParsePages(Tail(pages), results \o p.val)

\* a variant without the wrapping of a bare mapping
WrapPagesNoWrap(pages) == IF IsList(pages) THEN Ok(pages.l) ELSE Ok(<<>>)
\* pages after the list / dict check: [exc, val = pages]; a type that is
\* neither yields no pages
WrapPages(pages) ==
    IF IsList(pages) THEN Ok(pages.l)
    ELSE IF IsDict(pages) THEN Ok(<<pages>>)
    ELSE Ok(<<>>)

parse_json2_tables(b) ==
    LET docs == Get(b, "document", EmptyDict)
    IN  IF ~IsDict(docs) THEN Raise("AttributeError")
        ELSE ParsePages(WrapPages(Get(docs, "page", List(<<>>))).val, <<>>)

-----------------------------------------------------------------------------
(* parse_json2_tables of the earlier copy of the script: no type checks.   *)

\* the string appended to cols for one cell: [exc, val]
LegacyNormCell(cell) ==
    IF ~IsDict(cell) THEN Raise("AttributeError")
    ELSE LET txt == Get(cell, "text", Str(<<>>))
             t1 == IF IsDict(txt) THEN Get(txt, "text", Str(<<>>)) ELSE txt
         IN  IF t1.t # "str" THEN Raise("AttributeError") ELSE Ok(Strip(t1.s))

RECURSIVE LegacyCols(_, _)
LegacyCols(cells, cols) ==
    IF cells = <<>> THEN Ok(cols)
    ELSE LET c == LegacyNormCell(Head(cells))
         IN  IF c.exc # "none" THEN Raise(c.exc)
             ELSE LegacyCols(Tail(cells), Append(cols, c.val))

LegacyRowCols(r) ==
    IF ~IsDict(r) THEN Raise("AttributeError")
    ELSE LET it == Iter(Get(r, "column", List(<<>>)))
         IN  IF it.exc # "none" THEN Raise(it.exc) ELSE LegacyCols(it.items, <<>>)

RECURSIVE LegacyMatrix(_, _)
LegacyMatrix(rows, mat) ==
    IF rows = <<>> THEN Ok(mat)
    ELSE LET c == LegacyRowCols(Head(rows))
         IN  IF c.exc # "none" THEN Raise(c.exc)
             ELSE LegacyMatrix(Tail(rows), Append(mat, c.val))

LegacyPage(pg) ==
    IF ~IsDict(pg) THEN Raise("AttributeError")
    ELSE LET idx == PageNumber(pg)
             rows == Get(pg, "row", List(<<>>))
         IN  IF idx.exc # "none" THEN Raise(idx.exc)
             ELSE IF ~Truthy(rows) THEN Ok(<<>>)
             ELSE LET it == Iter(rows)
                      m == LegacyMatrix(it.items, <<>>)
                  IN  IF it.exc # "none" THEN Raise(it.exc)
                      ELSE IF m.exc # "none" THEN Raise(m.exc)
                      ELSE Ok(<<MakeRecord(idx.n, m.val)>>)

RECURSIVE LegacyPages(_, _)
LegacyPages(pages, results) ==
    IF pages = <<>> THEN Ok(results)
    ELSE LET p == LegacyPage(Head(pages))
         IN  IF p.exc # "none" THEN Raise(p.exc)
             ELSE LegacyPages(Tail(pages), results \o p.val)

\* pages = docs.get("page"), wrapped when a dict, then iterated: [exc, val]
LegacyWrapPages(pages) ==
    LET it == Iter(IF IsDict(pages) THEN List(<<pages>>) ELSE pages)
    IN  IF it.exc # "none" THEN Raise(it.exc) ELSE Ok(it.items)

legacy_parse_json2_tables(b) ==
    LET docs == Get(b, "document", EmptyDict)
    IN  IF ~IsDict(docs) THEN Raise("AttributeError")
        ELSE LET pages == LegacyWrapPages(Get(docs, "page", Null))
             IN  IF pages.exc # "none" THEN Raise(pages.exc)
                 ELSE LegacyPages(pages.val, <<>>)

\* the call, by script
Parse(which, b) ==
    IF which = "scan_pdf" THEN parse_json2_tables(b) ELSE legacy_parse_json2_tables(b)

-----------------------------------------------------------------------------
(* The inputs parse_json2_tables is applied to.                            *)

CellChars == {Space, "N", "1"}

SeqsUpTo(S, n) == UNION {[1..k -> S] : k \in 0..n}

\* every cell text of at most MaxStrLen characters
Texts == SeqsUpTo(CellChars, MaxStrLen)

Cell(txt) == Dict([text |-> txt])
Row(cells) == Dict([column |-> List(cells)])
Page(i, rows) == Dict([index |-> Int_(i), row |-> List(rows)])
Document(pages) == Dict([document |-> Dict([page |-> pages])])

\* one page, one row, one cell
SingleCellBody(cell) == Document(List(<<Page(0, <<Row(<<cell>>)>>)>>))

\* what a cell's text can be
TextValues ==
    {Str(s) : s \in Texts}
        \cup {Dict([text |-> Str(s)]) : s \in Texts}
        \cup {Dict([text |-> Dict([text |-> Str(s)])]) : s \in Texts}
        \cup {Null, Int_(3), EmptyDict, List(<<>>)}

CellBodies == {SingleCellBody(c) : c \in {Cell(t) : t \in TextValues} \cup {EmptyDict}}

\* trees that follow the schema: one page with up to MaxRows rows of up to
\* MaxCols cells
WellCells == {Cell(Str(<<"N">>)), Cell(Dict([text |-> Str(<<Space, "1">>)]))}
WellRows == {Row(cs) : cs \in SeqsUpTo(WellCells, MaxCols)}
WellPages == {Page(i, rs) : i \in {0, 2}, rs \in SeqsUpTo(WellRows, MaxRows)}

\* row entries off the schema
OddRows ==
    { Int_(7),
      EmptyDict,
      Dict([column |-> Int_(5)]),
      Dict([column |-> Null]),
      Dict([column |-> Str(<<"N">>)]),
      Dict([column |-> Cell(Str(<<"N">>))]),
      Row(<<Str(<<"N">>), Cell(Str(<<"N">>))>>),
      Row(<<Cell(Str(<<Space, "1">>))>>) }

\* page entries off the schema, with some that follow it
OddPages ==
    {Dict([index |-> Int_(1), row |-> List(rs)]) : rs \in SeqsUpTo(OddRows, MaxRows)}
        \cup
    { Str(<<"N">>),
      EmptyDict,
      Dict([row |-> List(<<Row(<<Cell(Str(<<"N">>))>>)>>)]),
      Dict([index |-> Int_(1)]),
      Dict([index |-> Int_(1), row |-> Str(<<"N">>)]),
      Dict([index |-> Int_(1), row |-> Row(<<Cell(Str(<<"N">>))>>)]),
      Dict([index |-> Str(<<"N">>), row |-> List(<<>>)]),
      Dict([index |-> Str(<<Space, "1">>), row |-> List(<<Row(<<Cell(Str(<<"N">>))>>)>>)]),
      Dict([index |-> Null, row |-> List(<<Row(<<Cell(Str(<<"N">>))>>)>>)]) }

\* the pages that make up lists of up to MaxPages entries
PagePalette ==
    { Page(0, <<>>),
      Page(0, <<Row(<<Cell(Str(<<"N">>))>>)>>),
      Page(2, <<Row(<<Cell(Str(<<"N">>))>>), Row(<<Cell(Str(<<Space, "1">>)), Cell(Str(<<>>))>>)>>),
      Str(<<"N">>),
      Dict([index |-> Int_(1), row |-> List(<<Int_(7)>>)]),
      Dict([index |-> Str(<<"N">>), row |-> List(<<>>)]) }

\* document / page of a wrong type
OddBodies ==
    { EmptyDict,
      Dict([document |-> Str(<<"N">>)]),
      Dict([document |-> Null]),
      Dict([document |-> List(<<>>)]),
      Dict([document |-> EmptyDict]),
      Document(Str(<<"N">>)),
      Document(Str(<<>>)),
      Document(Int_(5)),
      Document(Null) }

Bodies ==
    CellBodies
        \cup {Document(List(<<p>>)) : p \in WellPages \cup OddPages}
        \cup {Document(p) : p \in {q \in WellPages \cup OddPages : IsDict(q)}}
        \cup {Document(List(ps)) : ps \in SeqsUpTo(PagePalette, MaxPages)}
        \cup OddBodies

Impls == {"scan_pdf", "legacy"}

NoResult == [exc |-> "unset", val |-> <<>>]
NoPipe == [pc |-> "unused"]
NoDoc == [pc |-> "unused"]
NoBatch == [pc |-> "unused"]

-----------------------------------------------------------------------------
(* SpecParse: one call of parse_json2_tables on any of the inputs.         *)

InitParse ==
    /\ phase = "parse_ready"
    /\ body \in Bodies
    /\ impl \in Impls
    /\ result = NoResult
    /\ pipe = NoPipe
    /\ doc = NoDoc
    /\ batch = NoBatch

ParseCall ==
    /\ phase = "parse_ready"
    /\ phase' = "parse_done"
    /\ result' = Parse(impl, body)
    /\ UNCHANGED <<body, impl, pipe, doc, batch>>

NextParse == ParseCall

SpecParse == InitParse /\ [][NextParse]_vars

-----------------------------------------------------------------------------
(* Properties of parse_json2_tables.                                       *)

ParseDone == phase = "parse_done"

\* s without its leading and trailing spaces, stated without Strip: the
\* stretch of s between a run of spaces and a run of spaces that neither
\* starts nor ends with a space
Trimmed(s) ==
    CHOOSE u \in {SubSeq(s, i, j) : i \in 1..(Len(s) + 1), j \in 0..Len(s)} :
        /\ \E a, b \in 0..Len(s) :
              /\ a + Len(u) + b = Len(s)
              /\ \A i \in 1..a : s[i] = Space
              /\ \A i \in 1..b : s[Len(s) + 1 - i] = Space
              /\ u = SubSeq(s, a + 1, Len(s) - b)
        /\ u # <<>> => (u[1] # Space /\ u[Len(u)] # Space)

\* the schema of the PageTree
OnlyTextKey(v) == \A k \in Keys : (v.d[k] # Absent) <=> (k = "text")
WellFormedText(t) ==
    \/ t.t = "str"
    \/ (IsDict(t) /\ OnlyTextKey(t) /\ t.d.text.t = "str")
WellFormedCell(c) == IsDict(c) /\ OnlyTextKey(c) /\ WellFormedText(c.d.text)
WellFormedRow(r) ==
    /\ IsDict(r)
    /\ IsList(r.d.column)
    /\ \A i \in 1..Len(r.d.column.l) : WellFormedCell(r.d.column.l[i])
WellFormedPage(p) ==
    /\ IsDict(p)
    /\ p.d.index.t = "int"
    /\ IsList(p.d.row)
    /\ \A i \in 1..Len(p.d.row.l) : WellFormedRow(p.d.row.l[i])
WellFormedBody(b) ==
    /\ IsDict(b)
    /\ IsDict(b.d.document)
    /\ LET pg == b.d.document.d.page
       IN  \/ WellFormedPage(pg)
           \/ (IsList(pg) /\ \A i \in 1..Len(pg.l) : WellFormedPage(pg.l[i]))

\* the pages of a well-formed body, in input order
PagesOf(b) ==
    LET pg == b.d.document.d.page IN IF IsList(pg) THEN pg.l ELSE <<pg>>

HasRows(p) == p.d.row.l # <<>>

\* the texts the schema gives a row: each cell's string, trimmed
ExpectedText(c) ==
    LET t == c.d.text IN Trimmed(IF t.t = "str" THEN t.s ELSE t.d.text.s)
ExpectedRow(r) == [k \in 1..Len(r.d.column.l) |-> ExpectedText(r.d.column.l[k])]

\* C1 (as claimed): parse_json2_tables never raises on a mapping body,
\* whatever is absent, wrong-typed or empty below the top level.
C1_NeverRaises == (ParseDone /\ impl = "scan_pdf" /\ IsDict(body)) => result.exc = "none"

\* C2: on a well-formed PageTree the call returns one record per page that
\* has at least one row and none for the others, in input order, with
\* page = index + 1, headers the first row and rows the remaining rows.
C2_OneRecordPerPageWithRows ==
    (ParseDone /\ WellFormedBody(body)) =>
        LET keep == SelectSeq(PagesOf(body), HasRows)
        IN  /\ result.exc = "none"
            /\ Len(result.val) = Len(keep)
            /\ \A i \in 1..Len(keep) :
                  LET rows == keep[i].d.row.l
                  IN  /\ result.val[i].page = keep[i].d.index.n + 1
                      /\ result.val[i].headers = ExpectedRow(rows[1])
                      /\ Len(result.val[i].rows) = Len(rows) - 1
                      /\ \A j \in 1..(Len(rows) - 1) :
                            result.val[i].rows[j] = ExpectedRow(rows[j + 1])

\* C2's case: three well-formed pages, one of them without rows, and a
\* record with a data row under its headers
C2_Witness ==
    /\ ParseDone
    /\ impl = "scan_pdf"
    /\ WellFormedBody(body)
    /\ Len(PagesOf(body)) = 3
    /\ Len(result.val) = 2
    /\ result.val[1].page = 1
    /\ result.val[2].page = 3
    /\ result.val[2].rows # <<>>
    /\ result.val[2].rows[1] # result.val[2].headers

\* the str() of the mapping {text: s}
InnerRendering(s) ==
    <<"{", "'", "t", "e", "x", "t", "'", ":", " ", "'">> \o s \o <<"'", "}">>

OneCellResult(txt) == Ok(<<[page |-> 1, headers |-> <<txt>>, rows |-> <<>>]>>)

\* C3 (as claimed): a cell whose text is {text: s} normalises to s trimmed,
\* and a cell whose text is {text: {text: s}} to the empty string.
C3_DoublyNestedIsEmpty ==
    (ParseDone /\ impl = "scan_pdf") =>
        \A s \in Texts :
            /\ body = SingleCellBody(Cell(Dict([text |-> Str(s)])))
                  => result = OneCellResult(Trimmed(s))
            /\ body = SingleCellBody(Cell(Dict([text |-> Dict([text |-> Str(s)])])))
                  => result = OneCellResult(<<>>)

\* C3 (amended): a cell whose text is {text: s} normalises to s trimmed,
\* and a cell whose text is {text: {text: s}} to the str() of the inner
\* mapping {text: s}, which is "{'text': 's'}" and never empty.
C3_OneLevelUnwrap ==
    (ParseDone /\ impl = "scan_pdf") =>
        \A s \in Texts :
            /\ body = SingleCellBody(Cell(Dict([text |-> Str(s)])))
                  => result = OneCellResult(Trimmed(s))
            /\ body = SingleCellBody(Cell(Dict([text |-> Dict([text |-> Str(s)])])))
                  => result = OneCellResult(InnerRendering(s))

\* C3's case: a doubly-nested text has been normalised, to something
C3_Witness ==
    /\ ParseDone
    /\ impl = "scan_pdf"
    /\ body = SingleCellBody(Cell(Dict([text |-> Dict([text |-> Str(<<Space, "N", Space>>)])])))
    /\ result.exc = "none"
    /\ result.val[1].headers[1] # <<>>

\* C4: a body whose document.page is the bare mapping p gives what the body
\* with document.page = [p] gives, in both copies of the script.
C4_BarePageAsOneElementList ==
    (ParseDone /\ IsDict(body.d.document) /\ IsDict(body.d.document.d.page)) =>
        result = Parse(impl, [body EXCEPT !.d.document.d.page = List(<<@>>)])

\* C4's case: a bare page mapping has produced a record
C4_Witness ==
    /\ ParseDone
    /\ impl = "scan_pdf"
    /\ IsDict(body.d.document)
    /\ IsDict(body.d.document.d.page)
    /\ result.exc = "none"
    /\ Len(result.val) = 1
    /\ result.val[1].rows # <<>>

-----------------------------------------------------------------------------
(* SpecPipe: main() of the single-file scripts, one step per call it makes.*)

\* what can happen to a call
Outcomes(step) ==
    CASE step = "upload" -> {"ok", "transport", "http", "nonjson", "apierror", "oserror", "nokey"}
      [] step = "ocr" -> {"ok", "transport", "http", "nonjson", "apierror", "nokey"}
      [] step = "download" -> {"ok", "transport", "http", "oserror"}
      [] step = "convert" -> {"ok", "transport", "http", "nonjson", "apierror", "nokey"}
      [] step = "write" -> {"ok", "oserror"}

\* the exception a failure raises inside the function
ExcClass(outcome) ==
    CASE outcome = "transport" -> "RequestException"
      [] outcome = "http" -> "HTTPError"
      [] outcome = "nonjson" -> "JSONDecodeError"
      [] outcome = "apierror" -> "RuntimeError"
      [] outcome = "oserror" -> "OSError"
      [] outcome = "nokey" -> "KeyError"

\* the except clause of each function of scan_pdf.py; the earlier copy and
\* main's own write of the output file have none
Caught(which, step) ==
    IF which # "scan_pdf" THEN {}
    ELSE CASE step = "upload" -> {"RequestException", "HTTPError", "OSError", "JSONDecodeError"}
           [] step = "ocr" -> {"RequestException", "HTTPError", "JSONDecodeError"}
           [] step = "download" -> {"RequestException", "HTTPError", "OSError"}
           [] step = "convert" -> {"RequestException", "HTTPError", "JSONDecodeError"}
           [] OTHER -> {}

\* the exception that leaves the function
Propagated(which, step, outcome) ==
    IF outcome = "ok" THEN "none"
    ELSE IF ExcClass(outcome) \in Caught(which, step) THEN "RuntimeError"
    ELSE ExcClass(outcome)

\* a variant that converts before it downloads
AfterConvertFirst(step) ==
    CASE step = "start" -> "upload"
      [] step = "upload" -> "ocr"
      [] step = "ocr" -> "convert"
      [] step = "convert" -> "download"
      [] step = "download" -> "parse"
      [] step = "parse" -> "write"
      [] step = "write" -> "exited"
\* the statement main reaches after a call returns
After(step) ==
    CASE step = "start" -> "upload"
      [] step = "upload" -> "ocr"
      [] step = "ocr" -> "download"
      [] step = "download" -> "convert"
      [] step = "convert" -> "parse"
      [] step = "parse" -> "write"
      [] step = "write" -> "exited"

\* the bodies the convert endpoint answers with
PipeBodies ==
    { Document(Page(0, <<Row(<<Cell(Str(<<"N">>))>>), Row(<<Cell(Str(<<Space, "1">>))>>)>>)),
      Document(List(<<>>)),
      Dict([document |-> Null]) }

NoExit == -1

InitPipe ==
    /\ phase = "pipe"
    /\ impl \in Impls
    /\ body = Absent
    /\ result = NoResult
    /\ \E argc \in 1..3, exists \in BOOLEAN :
          pipe = [pc |-> "start", argc |-> argc, exists |-> exists, started |-> <<>>,
                  succeeded |-> {}, failure |-> "none", at |-> "none", exc |-> "none",
                  printed |-> "none", exit |-> NoExit]
    /\ doc = NoDoc
    /\ batch = NoBatch

\* the run after a call of `step` that raised exc (or "none")
RunStep(p, step, outcome, exc) ==
    [p EXCEPT !.started = Append(@, step),
              !.succeeded = IF exc = "none" THEN @ \cup {step} ELSE @,
              !.failure = IF exc = "none" THEN "none" ELSE outcome,
              !.at = IF exc = "none" THEN "none" ELSE step,
              !.exc = exc,
              !.pc = IF exc = "none" THEN After(step) ELSE "raised",
              !.printed = IF exc = "none" /\ After(step) = "exited" THEN "written" ELSE @,
              !.exit = IF exc = "none" /\ After(step) = "exited" THEN 0 ELSE @]

\* the argument checks
CheckArgs ==
    /\ phase = "pipe"
    /\ pipe.pc = "start"
    /\ pipe' = IF pipe.argc # 2
               THEN [pipe EXCEPT !.pc = "exited", !.printed = "usage", !.exit = 1]
               ELSE IF ~pipe.exists
               THEN [pipe EXCEPT !.pc = "exited", !.printed = "not found", !.exit = 1]
               ELSE [pipe EXCEPT !.pc = After("start")]
    /\ UNCHANGED <<phase, body, impl, result, doc, batch>>

Upload ==
    /\ phase = "pipe"
    /\ pipe.pc = "upload"
    /\ \E o \in Outcomes("upload") :
          pipe' = RunStep(pipe, "upload", o, Propagated(impl, "upload", o))
    /\ UNCHANGED <<phase, body, impl, result, doc, batch>>

MakeSearchable ==
    /\ phase = "pipe"
    /\ pipe.pc = "ocr"
    /\ \E o \in Outcomes("ocr") :
          pipe' = RunStep(pipe, "ocr", o, Propagated(impl, "ocr", o))
    /\ UNCHANGED <<phase, body, impl, result, doc, batch>>

Download ==
    /\ phase = "pipe"
    /\ pipe.pc = "download"
    /\ \E o \in Outcomes("download") :
          pipe' = RunStep(pipe, "download", o, Propagated(impl, "download", o))
    /\ UNCHANGED <<phase, body, impl, result, doc, batch>>

ExtractToJson2 ==
    /\ phase = "pipe"
    /\ pipe.pc = "convert"
    /\ \E o \in Outcomes("convert") :
          /\ pipe' = RunStep(pipe, "convert", o, Propagated(impl, "convert", o))
          /\ IF o = "ok" THEN body' \in PipeBodies ELSE body' = body
    /\ UNCHANGED <<phase, impl, result, doc, batch>>

ParseTables ==
    /\ phase = "pipe"
    /\ pipe.pc = "parse"
    /\ LET r == Parse(impl, body)
       IN  /\ pipe' = RunStep(pipe, "parse", "malformed", r.exc)
           /\ result' = r
    /\ UNCHANGED <<phase, body, impl, doc, batch>>

WriteOutput ==
    /\ phase = "pipe"
    /\ pipe.pc = "write"
    /\ \E o \in Outcomes("write") :
          pipe' = RunStep(pipe, "write", o, Propagated(impl, "write", o))
    /\ UNCHANGED <<phase, body, impl, result, doc, batch>>

\* an exception reaches main: scan_pdf.py catches RuntimeError, prints it and
\* exits 1; anything else ends the interpreter with a traceback and status 1
TopLevel ==
    /\ phase = "pipe"
    /\ pipe.pc = "raised"
    /\ pipe' = IF impl = "scan_pdf" /\ pipe.exc = "RuntimeError"
               THEN [pipe EXCEPT !.pc = "exited", !.printed = "Error", !.exit = 1]
               ELSE [pipe EXCEPT !.pc = "exited", !.printed = "traceback", !.exit = 1]
    /\ UNCHANGED <<phase, body, impl, result, doc, batch>>

NextPipe ==
    \/ CheckArgs
    \/ Upload
    \/ MakeSearchable
    \/ Download
    \/ ExtractToJson2
    \/ ParseTables
    \/ WriteOutput
    \/ TopLevel

SpecPipe == InitPipe /\ [][NextPipe]_vars

\* the kinds of failure: transport, status, body, API flag, filesystem
ListedFailures == {"transport", "http", "nonjson", "apierror", "oserror"}

\* C5 (as claimed): in scan_pdf.py every listed failure, at whichever step,
\* the write of the output file included, reaches main as the uniform
\* RuntimeError, which main prints before exiting 1; nothing is retried; a
\* run without a failure exits 0.
C5_UniformFailure ==
    (phase = "pipe" /\ impl = "scan_pdf" /\ pipe.pc = "exited" /\ pipe.started # <<>>) =>
        /\ pipe.failure \in ListedFailures =>
              (pipe.exc = "RuntimeError" /\ pipe.printed = "Error" /\ pipe.exit = 1)
        /\ pipe.failure = "none" => pipe.exit = 0
        /\ \A i, j \in 1..Len(pipe.started) : pipe.started[i] = pipe.started[j] => i = j

IsPrefix(a, b) == Len(a) <= Len(b) /\ a = SubSeq(b, 1, Len(a))

ClaimedOrder == <<"upload", "ocr", "convert", "download", "parse">>
CodeOrder == <<"upload", "ocr", "download", "convert", "parse">>

\* the calls of the remote-API pipeline made so far
PipelineCalls(p) == SelectSeq(p.started, LAMBDA x : x # "write")

\* C8 (as claimed): the steps run at most once each in the order upload,
\* OCR, convert, download, parse, each only after the one before succeeded.
C8_ClaimedOrder ==
    phase = "pipe" =>
        /\ IsPrefix(PipelineCalls(pipe), ClaimedOrder)
        /\ \A i \in 2..Len(pipe.started) : pipe.started[i - 1] \in pipe.succeeded

\* C8 (amended): the steps run at most once each in the order upload, OCR,
\* download, convert, parse, each only after the one before succeeded.
C8_CodeOrder ==
    phase = "pipe" =>
        /\ IsPrefix(PipelineCalls(pipe), CodeOrder)
        /\ \A i \in 2..Len(pipe.started) : pipe.started[i - 1] \in pipe.succeeded

\* C8's case: a run that got through all five steps
C8_Witness ==
    /\ phase = "pipe"
    /\ PipelineCalls(pipe) = CodeOrder
    /\ "parse" \in pipe.succeeded
    /\ result.val # <<>>

-----------------------------------------------------------------------------
(* main.py: the classifier, the two extractors and process_pdf.            *)
(* A PDF is [page_count, text_len, paddle, tesseract, lattice, stream]:    *)
(* the length of the stripped text layer of a page, what each OCR engine   *)
(* reads on a page, and the tables each Camelot flavor finds.              *)

ScanThreshold == 20

\* str.split(): the maximal runs of non-space characters
RECURSIVE SplitFrom(_, _, _)
SplitFrom(line, cur, toks) ==
    IF line = <<>> THEN IF cur = <<>> THEN toks ELSE Append(toks, cur)
    ELSE IF Head(line) = Space
         THEN SplitFrom(Tail(line), <<>>, IF cur = <<>> THEN toks ELSE Append(toks, cur))
         ELSE SplitFrom(Tail(line), Append(cur, Head(line)), toks)
Split(line) == SplitFrom(line, <<>>, <<>>)

RECURSIVE Flatten(_)
Flatten(blocks) == IF blocks = <<>> THEN <<>> ELSE Head(blocks) \o Flatten(Tail(blocks))

\* fitz load_page(page_no): a negative number counts from the end, a number
\* past the end raises ValueError("page not in document")
LoadPage(pdf, page_no) ==
    IF page_no >= pdf.page_count THEN Raise("PageNotInDocument")
    ELSE Ok(IF page_no < 0 THEN ((page_no % pdf.page_count) + 1) ELSE page_no + 1)

\* is_scanned(pdf_path, page_no): [exc, val]
is_scanned(pdf, page_no) ==
    LET pg == LoadPage(pdf, page_no)
    IN  IF pg.exc # "none" THEN Raise(pg.exc)
        ELSE Ok(pdf.text_len < ScanThreshold)

\* the stripped, non-empty lines of one page: PaddleOCR's, else Tesseract's
OcrLines(pdf) ==
    LET strip(raw) == [i \in 1..Len(raw) |-> Strip(raw[i])]
        nonempty(x) == x # <<>>
        paddle == SelectSeq(strip(Flatten(pdf.paddle)), nonempty)
    IN  IF paddle # <<>> THEN paddle ELSE SelectSeq(strip(pdf.tesseract), nonempty)

\* data_rows = [row[:len(headers)] for row in data_rows]
AlignRow(row, n) == SubSeq(row, 1, IF Len(row) < n THEN Len(row) ELSE n)

StrList(toks) == List([i \in 1..Len(toks) |-> Str(toks[i])])

\* the record extract_tables_scanned appends for page p
ScannedRecord(pdf, p) ==
    LET lines == OcrLines(pdf)
        rows_all == [i \in 1..Len(lines) |-> Split(lines[i])]
        headers == IF rows_all # <<>> THEN rows_all[1] ELSE <<>>
        data_rows == IF Len(rows_all) > 1 THEN Tail(rows_all) ELSE <<>>
        hs == [i \in 1..Len(headers) |-> Strip(headers[i])]
        aligned == [i \in 1..Len(data_rows) |-> AlignRow(data_rows[i], Len(hs))]
    IN  [page |-> Int_(p),
         title |-> Str(IF lines # <<>> THEN lines[1] ELSE <<>>),
         headers |-> StrList(hs),
         rows |-> List([i \in 1..Len(aligned) |-> StrList(aligned[i])]),
         metadata |-> IF lines # <<>> THEN "PaddleOCR" ELSE "Tesseract"]

ValidPage(pdf, p) == 1 <= p /\ p <= pdf.page_count

\* extract_tables_scanned(pdf_path, pages, ocr): the records
extract_tables_scanned(pdf, pages) ==
    LET valid == SelectSeq(pages, LAMBDA p : ValidPage(pdf, p))
    IN  [i \in 1..Len(valid) |-> ScannedRecord(pdf, valid[i])]

\* header.strip().replace("\n", " ").replace(",", ""); the cells of the model
\* hold no newline
CleanHeader(h) == SelectSeq(Strip(h), LAMBDA c : c # ",")

\* the record extract_tables_digital appends for a Camelot table
DigitalRecord(tbl) ==
    LET headers == [i \in 1..Len(tbl.df[1]) |-> CleanHeader(tbl.df[1][i])]
        raw_rows == List([i \in 1..(Len(tbl.df) - 1) |-> StrList(tbl.df[i + 1])])
    IN  [page |-> Int_(tbl.page),
         headers |-> Str(Join(headers, <<",">>)),
         raw_rows |-> raw_rows,
         processed_rows |-> raw_rows,
         metadata |-> "parsing_report"]

\* extract_tables_digital(pdf_path, pages): [exc, val = the records]
extract_tables_digital(pdf, pages) ==
    LET valid == SelectSeq(pages, LAMBDA p : ValidPage(pdf, p))
        onpages(tbls) == SelectSeq(tbls, LAMBDA t : \E i \in 1..Len(valid) : valid[i] = t.page)
        lattice == onpages(pdf.lattice)
        found == IF lattice = <<>> THEN onpages(pdf.stream) ELSE lattice
        full == SelectSeq(found, LAMBDA t : t.df # <<>>)
    IN  IF valid = <<>> THEN Raise("NoValidPages")
        ELSE Ok([i \in 1..Len(full) |-> DigitalRecord(full[i])])

\* out_file of process_pdf: the name without its extension, then _tables.<fmt>
OutFile(name, fmt) ==
    [stem |-> name.stem, suffix |-> "_tables", ext |-> IF fmt = "json" THEN "json" ELSE "md"]

\* pd.DataFrame(rows, columns=headers): short rows are padded to the longest
\* one, and the width must then equal the number of columns
DataFrame(rows, headers) ==
    LET width == CHOOSE w \in 0..Len(headers.l) :
                    /\ \A i \in 1..Len(rows.l) : Len(rows.l[i].l) <= w
                    /\ (rows.l # <<>> => \E i \in 1..Len(rows.l) : Len(rows.l[i].l) = w)
    IN  IF rows.l # <<>> /\ width # Len(headers.l) THEN Raise("ValueError")
        ELSE Ok([columns |-> headers, data |-> rows])

\* the Markdown of one record: [exc, val]
MarkdownSection(tbl) ==
    IF "title" \notin DOMAIN tbl THEN Raise("KeyError")
    ELSE IF "rows" \notin DOMAIN tbl THEN Raise("KeyError")
    ELSE LET df == DataFrame(tbl.rows, tbl.headers)
         IN  IF df.exc # "none" THEN Raise(df.exc)
             ELSE Ok([page |-> tbl.page, title |-> tbl.title, table |-> df.val])

RECURSIVE Markdown(_, _)
Markdown(tables, md) ==
    IF tables = <<>> THEN Ok(md)
    ELSE LET sec == MarkdownSection(Head(tables))
         IN  IF sec.exc # "none" THEN Raise(sec.exc)
             ELSE Markdown(Tail(tables), Append(md, sec.val))

\* what process_pdf writes to out_file: [exc, val]
Rendered(tables, fmt) == IF fmt = "json" THEN Ok(tables) ELSE Markdown(tables, <<>>)

-----------------------------------------------------------------------------
(* SpecDoc: one call of process_pdf, one step per call it makes.           *)

RECURSIVE SortedSeq(_)
SortedSeq(S) ==
    IF S = {} THEN <<>>
    ELSE LET m == CHOOSE x \in S : \A y \in S : x <= y
         IN  <<m>> \o SortedSeq(S \ {m})

\* what parse_pages returns: sorted, without duplicates, possibly empty
PageLists == {SortedSeq(S) : S \in SUBSET (0..MaxPageNo)}

\* what an OCR engine reads as one line
RawLines == {<<"a">>, <<"a", Space, "b">>, <<Space, "b">>, <<Space>>}

Table1 == [page |-> 1, df |-> <<<<<<Space, "a", ",">>, <<"b">>>>, <<<<"1">>, <<"2">>>>>>]
Table2 == [page |-> 2, df |-> <<<<<<"a">>>>>>]
TableEmpty == [page |-> 1, df |-> <<>>]

ScannedPdfs ==
    [page_count : 1..MaxPageCount,
     text_len : {0, ScanThreshold - 1},
     paddle : {<<b>> : b \in SeqsUpTo(RawLines, MaxLines)},
     tesseract : {<<>>, <<<<"a", Space, "b">>, <<"b">>>>},
     lattice : {<<>>},
     stream : {<<>>}]

DigitalPdfs ==
    [page_count : 1..MaxPageCount,
     text_len : {ScanThreshold, ScanThreshold + 5},
     paddle : {<<<<>>>>},
     tesseract : {<<>>},
     lattice : {<<>>, <<Table1, Table2>>},
     stream : {<<>>, <<Table1>>, <<TableEmpty>>}]

DocName == [stem |-> "a", ext |-> "pdf"]

NewDoc(name, pdf, pages, fmt) ==
    [pc |-> "classify", name |-> name, pdf |-> pdf, pages |-> pages, fmt |-> fmt,
     scanned |-> FALSE, tables |-> <<>>, exc |-> "none", events |-> <<>>,
     out_file |-> "none", written |-> <<>>]

InitDoc ==
    /\ phase = "doc"
    /\ body = Absent
    /\ impl = "main"
    /\ result = NoResult
    /\ pipe = NoPipe
    /\ \E pdf \in ScannedPdfs \cup DigitalPdfs, pages \in PageLists, fmt \in {"json", "markdown"} :
          doc = NewDoc(DocName, pdf, pages, fmt)
    /\ batch = NoBatch

\* scanned = is_scanned(pdf_path, page_no=pages[0] - 1)
Classified(d) ==
    IF d.pages = <<>> THEN [d EXCEPT !.pc = "raised", !.exc = "IndexError"]
    ELSE LET r == is_scanned(d.pdf, d.pages[1] - 1)
         IN  IF r.exc # "none"
             THEN [d EXCEPT !.pc = "raised", !.exc = r.exc,
                            !.events = Append(@, "is_scanned")]
             ELSE [d EXCEPT !.pc = "extract", !.scanned = r.val,
                            !.events = Append(@, "is_scanned")]

\* tables = extract_tables_scanned(...) or extract_tables_digital(...)
Extracted(d) ==
    IF d.scanned
    THEN [d EXCEPT !.pc = "check", !.tables = extract_tables_scanned(d.pdf, d.pages),
                   !.events = Append(@, "extract_tables_scanned")]
    ELSE LET r == extract_tables_digital(d.pdf, d.pages)
         IN  IF r.exc # "none"
             THEN [d EXCEPT !.pc = "raised", !.exc = r.exc,
                            !.events = Append(@, "extract_tables_digital")]
             ELSE [d EXCEPT !.pc = "check", !.tables = r.val,
                            !.events = Append(@, "extract_tables_digital")]

\* if not pages: raise ValueError
Checked(d) ==
    IF d.pages = <<>> THEN [d EXCEPT !.pc = "raised", !.exc = "NoValidPages"]
    ELSE [d EXCEPT !.pc = "write"]

\* the text is built, then out_file is opened and written
Written(d) ==
    LET r == Rendered(d.tables, d.fmt)
    IN  IF r.exc # "none"
        THEN [d EXCEPT !.pc = "raised", !.exc = r.exc, !.events = Append(@, "write")]
        ELSE [d EXCEPT !.pc = "returned", !.out_file = OutFile(d.name, d.fmt),
                       !.written = r.val, !.events = Append(@, "write")]

\* process_pdf from its first statement to its last
process_pdf(d0) ==
    LET c == Classified(d0)
        e == IF c.pc = "raised" THEN c ELSE Extracted(c)
        k == IF e.pc = "raised" THEN e ELSE Checked(e)
    IN  IF k.pc = "raised" THEN k ELSE Written(k)

Classify ==
    /\ phase = "doc"
    /\ doc.pc = "classify"
    /\ doc' = Classified(doc)
    /\ UNCHANGED <<phase, body, impl, result, pipe, batch>>

ExtractScanned ==
    /\ phase = "doc"
    /\ doc.pc = "extract"
    /\ doc.scanned
    /\ doc' = Extracted(doc)
    /\ UNCHANGED <<phase, body, impl, result, pipe, batch>>

ExtractDigital ==
    /\ phase = "doc"
    /\ doc.pc = "extract"
    /\ ~doc.scanned
    /\ doc' = Extracted(doc)
    /\ UNCHANGED <<phase, body, impl, result, pipe, batch>>

CheckPages ==
    /\ phase = "doc"
    /\ doc.pc = "check"
    /\ doc' = Checked(doc)
    /\ UNCHANGED <<phase, body, impl, result, pipe, batch>>

WriteFile ==
    /\ phase = "doc"
    /\ doc.pc = "write"
    /\ doc' = Written(doc)
    /\ UNCHANGED <<phase, body, impl, result, pipe, batch>>

NextDoc ==
    \/ Classify
    \/ ExtractScanned
    \/ ExtractDigital
    \/ CheckPages
    \/ WriteFile

SpecDoc == InitDoc /\ [][NextDoc]_vars

\* a TableRecord: page, headers a sequence of strings, rows a sequence of
\* sequences of strings
IsStrList(v) == v.t = "list" /\ \A i \in 1..Len(v.l) : v.l[i].t = "str"
IsTableRecord(r) ==
    /\ {"page", "headers", "rows"} \subseteq DOMAIN r
    /\ r.page.t = "int"
    /\ IsStrList(r.headers)
    /\ r.rows.t = "list"
    /\ \A i \in 1..Len(r.rows.l) : IsStrList(r.rows.l[i])

\* C7 (as claimed): whichever extractor ran, every record handed to the
\* writer is a TableRecord, and the writer writes the output in either format.
C7_RecordsAreTableRecords ==
    phase = "doc" =>
        /\ \A i \in 1..Len(doc.tables) : IsTableRecord(doc.tables[i])
        /\ (doc.events # <<>> /\ doc.events[Len(doc.events)] = "write") => doc.pc = "returned"

NoValidRequested(d) == \A i \in 1..Len(d.pages) : ~ValidPage(d.pdf, d.pages[i])

\* C9 (as claimed): when pages are requested and none of them is a page of
\* the PDF, process_pdf raises the no-valid-pages failure, and neither the
\* classifier nor an extractor has been called before it does.
C9_ValidatedBeforeWork ==
    (phase = "doc" /\ doc.pages # <<>> /\ NoValidRequested(doc)) =>
        /\ doc.events = <<>>
        /\ doc.pc \in {"raised", "returned"} => doc.exc = "NoValidPages"

\* C10 (as claimed): every row of every record of the OCR extractor has as
\* many cells as the record has headers.
C10_RowsAlignedToHeaders ==
    (phase = "doc" /\ doc.scanned) =>
        \A i \in 1..Len(doc.tables) :
            \A j \in 1..Len(doc.tables[i].rows.l) :
                Len(doc.tables[i].rows.l[j].l) = Len(doc.tables[i].headers.l)

-----------------------------------------------------------------------------
(* SpecBatch: main() of main.py, the jobs of Parallel(n_jobs=parallel).    *)

\* f.lower()
Lower(ext) == IF ext \in {"PDF", "Pdf"} THEN "pdf" ELSE ext

\* f.lower().endswith('.pdf')
IsPdfName(name) == Lower(name.ext) = "pdf"

DirNames ==
    { [stem |-> "a", ext |-> "pdf"], [stem |-> "a", ext |-> "PDF"],
      [stem |-> "b", ext |-> "pdf"], [stem |-> "a", ext |-> "txt"] }

ScannedPdf(lines) ==
    [page_count |-> 1, text_len |-> 0, paddle |-> <<lines>>, tesseract |-> <<>>,
     lattice |-> <<>>, stream |-> <<>>]

\* what each file of the directory holds
PdfOf(name) ==
    CASE name = [stem |-> "a", ext |-> "pdf"] -> ScannedPdf(<<<<"a", Space, "b">>, <<"a">>>>)
      [] name = [stem |-> "a", ext |-> "PDF"] -> ScannedPdf(<<<<"b">>>>)
      [] OTHER -> [page_count |-> 1, text_len |-> ScanThreshold, paddle |-> <<<<>>>>,
                   tesseract |-> <<>>, lattice |-> <<Table1>>, stream |-> <<>>]

NoFile == [exists |-> FALSE, data |-> <<>>]

\* pdfs = [... for f in os.listdir(input_dir) if f.lower().endswith('.pdf')]
Discovered(dir) == {n \in dir : IsPdfName(n)}

InitBatch ==
    /\ phase = "batch"
    /\ body = Absent
    /\ impl = "main"
    /\ result = NoResult
    /\ pipe = NoPipe
    /\ doc = NoDoc
    /\ \E dir \in SUBSET DirNames, pages \in {<<1>>, <<0, 1>>},
          fmt \in {"json", "markdown"}, parallel \in 1..MaxParallel :
          batch = [pc |-> "running", dir |-> dir, parallel |-> parallel,
                   jobs |-> [n \in Discovered(dir) |-> NewDoc(n, PdfOf(n), pages, fmt)],
                   state |-> [n \in Discovered(dir) |-> "pending"],
                   fs |-> [f \in {OutFile(n, fmt) : n \in Discovered(dir)} |-> NoFile],
                   echoed |-> {}]

Active(b) == {n \in DOMAIN b.state : b.state[n] \in {"running", "open"}}

\* a worker takes the next task
Dispatch ==
    /\ phase = "batch"
    /\ batch.pc = "running"
    /\ Cardinality(Active(batch)) < batch.parallel
    /\ \E n \in DOMAIN batch.state :
          /\ batch.state[n] = "pending"
          /\ batch' = [batch EXCEPT !.state[n] = "running"]
    /\ UNCHANGED <<phase, body, impl, result, pipe, doc>>

\* process_pdf up to the open of out_file: the open truncates the file
JobOpen ==
    /\ phase = "batch"
    /\ \E n \in DOMAIN batch.state :
          /\ batch.state[n] = "running"
          /\ LET d == process_pdf(batch.jobs[n])
             IN  /\ d.pc = "returned"
                 /\ batch' = [batch EXCEPT !.state[n] = "open",
                                           !.jobs[n] = d,
                                           !.fs[d.out_file] = [exists |-> TRUE, data |-> <<>>]]
    /\ UNCHANGED <<phase, body, impl, result, pipe, doc>>

\* process_pdf raises: the exception reaches Parallel, which stops the batch
JobRaise ==
    /\ phase = "batch"
    /\ \E n \in DOMAIN batch.state :
          /\ batch.state[n] = "running"
          /\ LET d == process_pdf(batch.jobs[n])
             IN  /\ d.pc = "raised"
                 /\ batch' = [batch EXCEPT !.state[n] = "raised", !.jobs[n] = d,
                                           !.pc = "failed"]
    /\ UNCHANGED <<phase, body, impl, result, pipe, doc>>

\* the write and the close of out_file, and the return of process_pdf
JobDump ==
    /\ phase = "batch"
    /\ \E n \in DOMAIN batch.state :
          /\ batch.state[n] = "open"
          /\ batch' = [batch EXCEPT
                          !.state[n] = "returned",
                          !.fs[batch.jobs[n].out_file] =
                              [exists |-> TRUE, data |-> batch.jobs[n].written]]
    /\ UNCHANGED <<phase, body, impl, result, pipe, doc>>

\* for r in results: click.echo(...)
Echo ==
    /\ phase = "batch"
    /\ batch.pc = "running"
    /\ \A n \in DOMAIN batch.state : batch.state[n] = "returned"
    /\ batch' = [batch EXCEPT !.pc = "done",
                              !.echoed = {batch.jobs[n].out_file : n \in DOMAIN batch.state}]
    /\ UNCHANGED <<phase, body, impl, result, pipe, doc>>

NextBatch ==
    \/ Dispatch
    \/ JobOpen
    \/ JobRaise
    \/ JobDump
    \/ Echo

SpecBatch == InitBatch /\ [][NextBatch]_vars

\* C6 (as claimed): two distinct PDFs of the input directory never have the
\* same output file open at once, and once the batch is done every PDF's
\* output file holds that PDF's tables.
C6_JobsWriteDistinctFiles ==
    phase = "batch" =>
        /\ \A n, m \in DOMAIN batch.state :
              (n # m /\ batch.state[n] = "open" /\ batch.state[m] = "open")
                  => batch.jobs[n].out_file # batch.jobs[m].out_file
        /\ batch.pc = "done" =>
              \A n \in DOMAIN batch.state :
                  batch.fs[batch.jobs[n].out_file] =
                      [exists |-> TRUE, data |-> batch.jobs[n].written]

====
